---- MODULE Spec2Model ----
(***************************************************************************)
(* FileTarInterpreter (package postgres): extraction of tar entries to the *)
(* data directory, and the file-sync mode applied when extraction ends.    *)
(*                                                                         *)
(* The file system is a map from paths (sequences of path components,      *)
(* relative to the working directory <<>>) to nodes.  Every action is one  *)
(* call of Interpret by one worker; the directory case is two steps        *)
(* (os.MkdirAll, then os.Chmod) so that two workers can race on it.        *)
(***************************************************************************)
EXTENDS Integers, Sequences, FiniteSets, TLC

\* Bound: Interpret calls started in one restore session.
MaxCalls == 2

\* ---------------------------------------------------------------- domains

Workers == {"w1", "w2"}

Leaf == <<"base", "1", "16384">>
Names == {<<"base", "1">>, Leaf}
Roots == {<<>>, <<"data">>}
\* 0644 and 0700
EntryModes == {420, 448}
Contents == {<<"A", "A">>, <<"B">>}

TypeReg == "TypeReg"
TypeDir == "TypeDir"
TypeLink == "TypeLink"
TypeSymlink == "TypeSymlink"
TypeOther == "TypeOther"

\* os.O_CREATE permission of unwrapRegularFileOld, 0666
FileCreatePerm == 438
\* os.MkdirAll permission, 0755
DirCreatePerm == 493

DEFAULT == "DEFAULT"
GLOBAL == "GLOBAL"
DISABLED == "DISABLED"
Unset == "unset"

deprecatedFileSyncMessage == "deprecated fsync-for-every-file"
fallingBackFileSyncMessage == "falling back to DISABLED"

\* ------------------------------------------------------------ file system

Front(p) == SubSeq(p, 1, Len(p) - 1)
Last(p) == p[Len(p)]
Prefixes(p) == {SubSeq(p, 1, k) : k \in 1..Len(p)}

\* targetPath := path.Join(tarInterpreter.DBDataDirectory, fileInfo.Name)
Join(root, name) == root \o name

Paths == UNION {Prefixes(Join(r, n)) : r \in Roots, n \in Names}

None == [kind |-> "none", mode |-> 0, content |-> <<>>]
File(mode, content) == [kind |-> "file", mode |-> mode, content |-> content]
Dir(mode) == [kind |-> "dir", mode |-> mode, content |-> <<>>]
\* a symbolic link holds its link text in content
Symlink(text) == [kind |-> "symlink", mode |-> 511, content |-> text]

NodeAt(f, p) == IF p \in DOMAIN f THEN f[p] ELSE None
\* the working directory <<>> always exists
IsDir(f, p) == p = <<>> \/ NodeAt(f, p).kind = "dir"

Ok(f) == [fs |-> f, err |-> "none"]
Fail(f, e) == [fs |-> f, err |-> e]

\* os.MkdirAll: an existing directory is no error (also when another creator
\* won the race, which is why the whole call is one atomic step here); a
\* non-directory on the way is an error and nothing is created.
RECURSIVE MkdirAllFrom(_, _, _)
MkdirAllFrom(f, p, perm) ==
    IF IsDir(f, p) THEN Ok(f)
    ELSE IF NodeAt(f, p).kind # "none" \/ p \notin DOMAIN f THEN Fail(f, "mkdir")
    ELSE LET r == MkdirAllFrom(f, Front(p), perm)
         IN  IF r.err # "none" THEN r
             ELSE Ok([r.fs EXCEPT ![p] = Dir(perm)])

\* mutant: os.Mkdir's answer for a path that exists
MkdirAllExclusive(f, p, perm) ==
    IF NodeAt(f, p).kind # "none" THEN Fail(f, "mkdir") ELSE MkdirAllFrom(f, p, perm)

MkdirAll(f, p, perm) == MkdirAllFrom(f, p, perm)

\* PrepareDirs makes sure all dirs exist
PrepareDirs(f, fileName, targetPath) ==
    IF fileName = targetPath THEN Ok(f)
    ELSE LET base == Last(fileName)
             dir  == IF Last(targetPath) = base THEN Front(targetPath)
                     ELSE targetPath
         IN  MkdirAll(f, dir, DirCreatePerm)

\* os.OpenFile(targetPath, os.O_WRONLY|os.O_CREATE|os.O_TRUNC, 0666).
\* A symbolic link made by Interpret points at fileInfo.Name relative to its
\* own directory, which for every name here is itself or a missing path, so
\* opening through it fails.
OpenFile(f, p) ==
    IF ~IsDir(f, Front(p)) THEN Fail(f, "open")
    ELSE IF f[p].kind = "none" THEN Ok([f EXCEPT ![p] = File(FileCreatePerm, <<>>)])
    ELSE IF f[p].kind = "file" THEN Ok([f EXCEPT ![p].content = <<>>])
    ELSE Fail(f, "open")

\* io.Copy(localFile, fileReader) stopping after n bytes: the bytes go over
\* the file's content from offset 0
Copy(f, p, content, n) ==
    [f EXCEPT ![p].content = SubSeq(content, 1, n) \o SubSeq(@, n + 1, Len(@))]

\* mutant: a failed copy is returned without removing the file
WriteLocalFileKeepsPartial(f, p, content, mode, fsync, fault, n) ==
    IF fault \in {"copy", "remove"}
    THEN [fs |-> Copy(f, p, content, n), err |-> "copy", fsyncs |-> 0]
    ELSE IF fault = "chmod"
    THEN [fs |-> Copy(f, p, content, n), err |-> "chmod", fsyncs |-> 0]
    ELSE [fs |-> [Copy(f, p, content, n) EXCEPT ![p].mode = mode], err |-> "none",
          fsyncs |-> IF fsync THEN 1 ELSE 0]

\* mutant: a failed chmod removes the file like a failed copy
WriteLocalFileChmodCleans(f, p, content, mode, fsync, fault, n) ==
    IF fault = "remove"
    THEN [fs |-> Copy(f, p, content, n), err |-> "fatal", fsyncs |-> 0]
    ELSE IF fault \in {"copy", "chmod"}
    THEN [fs |-> [f EXCEPT ![p] = None], err |-> fault, fsyncs |-> 0]
    ELSE [fs |-> [Copy(f, p, content, n) EXCEPT ![p].mode = mode], err |-> "none",
          fsyncs |-> IF fsync THEN 1 ELSE 0]

\* mutant: the mode of the header is not applied
WriteLocalFileNoChmod(f, p, content, mode, fsync, fault, n) ==
    IF fault = "remove"
    THEN [fs |-> Copy(f, p, content, n), err |-> "fatal", fsyncs |-> 0]
    ELSE IF fault = "copy"
    THEN [fs |-> [f EXCEPT ![p] = None], err |-> "copy", fsyncs |-> 0]
    ELSE IF fault = "chmod"
    THEN [fs |-> Copy(f, p, content, n), err |-> "chmod", fsyncs |-> 0]
    ELSE [fs |-> Copy(f, p, content, n), err |-> "none",
          fsyncs |-> IF fsync THEN 1 ELSE 0]

\* write file from reader to local file.  fault is what the environment makes
\* fail ("copy": io.Copy; "remove": io.Copy and then os.Remove; "chmod":
\* localFile.Chmod), n the bytes io.Copy wrote before it stopped.  err "fatal"
\* is tracelog.ErrorLogger.Fatalf: the process exits, nothing is returned.
WriteLocalFile(f, p, content, mode, fsync, fault, n) ==
    LET copied == Copy(f, p, content, n)
    IN  IF fault = "remove"
        THEN [fs |-> copied, err |-> "fatal", fsyncs |-> 0]
        ELSE IF fault = "copy"
        THEN [fs |-> [copied EXCEPT ![p] = None], err |-> "copy", fsyncs |-> 0]
        ELSE IF fault = "chmod"
        THEN [fs |-> copied, err |-> "chmod", fsyncs |-> 0]
        ELSE [fs |-> [copied EXCEPT ![p].mode = mode], err |-> "none",
              fsyncs |-> IF fsync THEN 1 ELSE 0]

\* ApplyFileIncrement: the stream holds the changed blocks 1..Len(stream).
ApplyFileIncrement(f, p, stream, createNew, fsync) ==
    IF createNew
    THEN IF IsDir(f, Front(p)) /\ f[p].kind \in {"none", "file"}
         THEN [fs |-> [f EXCEPT ![p] =
                         File(IF @.kind = "file" THEN @.mode ELSE FileCreatePerm, stream)],
               err |-> "none", fsyncs |-> IF fsync THEN 1 ELSE 0]
         ELSE [fs |-> f, err |-> "increment", fsyncs |-> 0]
    ELSE IF f[p].kind = "file" /\ Len(f[p].content) >= Len(stream)
         THEN [fs |-> [f EXCEPT ![p].content =
                         [i \in 1..Len(@) |-> IF i <= Len(stream) THEN stream[i] ELSE @[i]]],
               err |-> "none", fsyncs |-> IF fsync THEN 1 ELSE 0]
         ELSE [fs |-> f, err |-> "increment", fsyncs |-> 0]

\* mutant: the selection is not consulted
ExcludedNever(c, name) == FALSE

\* if tarInterpreter.FilesToUnwrap != nil { if _, ok := ...[fileInfo.Name]; !ok
Excluded(c, name) ==
    c.FilesToUnwrap.configured /\ name \notin c.FilesToUnwrap.names

\* mutant: the sentinel is not asked
IsIncrementedFileAnySentinel(c, name) ==
    /\ name \in DOMAIN c.FilesMetadata
    /\ c.FilesMetadata[name].IsIncremented

\* haveFileDescription && Sentinel.IsIncremental() && fileDescription.IsIncremented
IsIncrementedFile(c, name) ==
    /\ name \in DOMAIN c.FilesMetadata
    /\ c.Sentinel.IsIncremental
    /\ c.FilesMetadata[name].IsIncremented

unwrapRegularFileOld(f, c, e, targetPath, fsync, fault, n) ==
    IF Excluded(c, e.name)
    THEN [fs |-> f, err |-> "none", fsyncs |-> 0, path |-> "skip"]
    ELSE IF IsIncrementedFile(c, e.name)
    THEN LET r == ApplyFileIncrement(f, targetPath, e.content,
                                     c.createNewIncrementalFiles, fsync)
         IN  [fs |-> r.fs, err |-> r.err, fsyncs |-> r.fsyncs, path |-> "increment"]
    ELSE LET d == PrepareDirs(f, e.name, targetPath)
             o == OpenFile(d.fs, targetPath)
             w == WriteLocalFile(o.fs, targetPath, e.content, e.mode, fsync, fault, n)
         IN  IF d.err # "none"
             THEN [fs |-> d.fs, err |-> d.err, fsyncs |-> 0, path |-> "full"]
             ELSE IF o.err # "none"
             THEN [fs |-> o.fs, err |-> o.err, fsyncs |-> 0, path |-> "full"]
             ELSE [fs |-> w.fs, err |-> w.err, fsyncs |-> w.fsyncs, path |-> "full"]

\* mutant: fsync after each file
InterpretFsyncAlways == TRUE

\* the fsync argument Interpret passes to unwrapRegularFileOld
InterpretFsync == FALSE

\* os.Link(fileInfo.Name, targetPath): the old name is looked up from the
\* working directory.
Link(f, oldname, p) ==
    IF NodeAt(f, oldname).kind = "file" /\ f[p].kind = "none" /\ IsDir(f, Front(p))
    THEN Ok([f EXCEPT ![p] = f[oldname]])
    ELSE Fail(f, "link")

\* os.Symlink(fileInfo.Name, targetPath)
MakeSymlink(f, text, p) ==
    IF f[p].kind = "none" /\ IsDir(f, Front(p))
    THEN Ok([f EXCEPT ![p] = Symlink(text)])
    ELSE Fail(f, "symlink")

\* os.Chmod(targetPath, os.FileMode(fileInfo.Mode)) of the directory case
ChmodDir(f, p, mode, fault) ==
    IF fault = "chmod" \/ f[p].kind \notin {"dir", "file"} THEN Fail(f, "chmod")
    ELSE Ok([f EXCEPT ![p].mode = mode])

\* ------------------------------------------------------------- file sync

\* viper.GetString(internal.TarFsyncMode): an unset mode reads as DEFAULT
GetFsyncModeSetting(v) ==
    IF v.TarFsyncMode = Unset THEN DEFAULT ELSE v.TarFsyncMode

\* mutant: the deprecated setting wins over an explicit mode
getFileSyncModeLegacyWins(v) ==
    LET fsyncMode == GetFsyncModeSetting(v)
    IN  IF v.TarDisableFsync # Unset
        THEN IF v.TarDisableFsync = "true"
             THEN [mode |-> DISABLED,
                   warnings |-> <<deprecatedFileSyncMessage, fallingBackFileSyncMessage>>]
             ELSE [mode |-> fsyncMode, warnings |-> <<deprecatedFileSyncMessage>>]
        ELSE [mode |-> fsyncMode, warnings |-> <<>>]

getFileSyncMode(v) ==
    LET fsyncMode == GetFsyncModeSetting(v)
    IN  IF v.TarDisableFsync # Unset
        THEN IF fsyncMode = DEFAULT /\ v.TarDisableFsync = "true"
             THEN [mode |-> DISABLED,
                   warnings |-> <<deprecatedFileSyncMessage, fallingBackFileSyncMessage>>]
             ELSE [mode |-> fsyncMode, warnings |-> <<deprecatedFileSyncMessage>>]
        ELSE [mode |-> fsyncMode, warnings |-> <<>>]

\* fileSyncMode == internal.GLOBAL || fileSyncMode == internal.DEFAULT
\* mutant: only the deprecated mode syncs
NeedsGlobalSyncDefaultOnly(mode) == mode = DEFAULT

NeedsGlobalSync(mode) == mode = GLOBAL \/ mode = DEFAULT

\* errno is what unix.Syscall(unix.SYS_SYNC, 0, 0, 0) returns
OnInterpretFinish(v, errno) ==
    LET r == getFileSyncMode(v)
    IN  [mode |-> r.mode, warnings |-> r.warnings,
         syncs |-> IF NeedsGlobalSync(r.mode) THEN 1 ELSE 0,
         err |-> IF NeedsGlobalSync(r.mode) /\ errno # 0
                 THEN "global fsync failed" ELSE "none"]

\* ------------------------------------------------------------------ state

VARIABLES
    fs,          \* the file system: path -> node
    cfg,         \* the fields of the FileTarInterpreter instances of the session
    viper,       \* the two file-sync settings
    pc,          \* worker -> "idle" | "chmod" (inside the directory case) | "exhausted"
    cur,         \* worker -> the directory entry it is inside Interpret with
    last,        \* the Interpret step taken last, and what it returned
    calls,       \* Interpret calls started
    fsyncCalls,  \* localFile.Sync() calls made
    syncCalls,   \* SYS_SYNC calls made
    finished,    \* what OnInterpretFinish returned, once called
    terminated   \* Fatalf has ended the process

vars == <<fs, cfg, viper, pc, cur, last, calls, fsyncCalls, syncCalls, finished, terminated>>

RegEntries == [kind : {TypeReg}, name : Names, mode : EntryModes, content : Contents]
DirEntries == [kind : {TypeDir}, name : Names, mode : EntryModes, content : {<<>>}]
LinkEntries == [kind : {TypeLink}, name : Names, mode : {420}, content : {<<>>}]
SymlinkEntries == [kind : {TypeSymlink}, name : Names, mode : {420}, content : {<<>>}]
OtherEntries == [kind : {TypeOther}, name : Names, mode : {420}, content : {<<>>}]
NoEntry == [kind |-> "none", name |-> <<>>, mode |-> 0, content |-> <<>>]

Faults == {"none", "copy", "remove", "chmod"}
\* the bytes io.Copy can have written when it returns
CopiedBytes(e, fault) ==
    IF fault \in {"copy", "remove"} THEN 0..(Len(e.content) - 1) ELSE {Len(e.content)}
Errnos == {0, 5}

FilesToUnwrapChoices ==
    {[configured |-> FALSE, names |-> {}],
     [configured |-> TRUE, names |-> {}],
     [configured |-> TRUE, names |-> {Leaf}]}

FilesMetadataChoices ==
    {[n \in D |-> [IsIncremented |-> b]] : D \in {{}, {Leaf}}, b \in BOOLEAN}

\* createNewIncrementalFiles is read on the increment path only: it varies
\* in the configurations that can take that path
Configs ==
    {c \in [DBDataDirectory : Roots,
            Sentinel : [IsIncremental : BOOLEAN],
            FilesMetadata : FilesMetadataChoices,
            FilesToUnwrap : FilesToUnwrapChoices,
            createNewIncrementalFiles : BOOLEAN] :
        c.createNewIncrementalFiles => IsIncrementedFile(c, Leaf)}

ViperSettings ==
    [TarFsyncMode : {Unset, DEFAULT, GLOBAL, DISABLED},
     TarDisableFsync : {Unset, "false", "true"}]

\* NewFileTarInterpreter, before the first entry
EmptyFs == [p \in Paths |-> None]

\* the data directory a restore of the base backup left: an increment is
\* applied over it
BaseFs(root) ==
    [p \in Paths |->
        IF p = Join(root, Leaf) THEN File(420, <<"A", "A">>)
        ELSE IF p \in Prefixes(Join(root, Leaf)) THEN Dir(DirCreatePerm)
        ELSE None]

InitSession ==
    /\ fs \in {EmptyFs} \cup (IF IsIncrementedFile(cfg, Leaf)
                               THEN {BaseFs(cfg.DBDataDirectory)} ELSE {})
    /\ pc = [w \in Workers |-> "idle"]
    /\ cur = [w \in Workers |-> NoEntry]
    /\ last = [step |-> 0, kind |-> "none", name |-> <<>>, mode |-> 0, content |-> <<>>,
               fault |-> "none", phase |-> "none", path |-> "none", err |-> "none",
               pre |-> None]
    /\ calls = 0
    /\ fsyncCalls = 0
    /\ syncCalls = 0
    /\ finished = [done |-> FALSE, mode |-> DEFAULT, warnings |-> <<>>, err |-> "none"]
    /\ terminated = FALSE

\* every interpreter configuration, the sync settings left unset
Init ==
    /\ cfg \in Configs
    /\ InitSession
    /\ viper = [TarFsyncMode |-> Unset, TarDisableFsync |-> Unset]

\* every combination of the sync settings, a plain and an incremental restore
InitDurability ==
    /\ cfg \in {c \in Configs :
                  /\ c.DBDataDirectory = <<"data">>
                  /\ ~c.FilesToUnwrap.configured
                  /\ Leaf \in DOMAIN c.FilesMetadata
                  /\ c.FilesMetadata[Leaf].IsIncremented
                  /\ c.createNewIncrementalFiles = c.Sentinel.IsIncremental}
    /\ InitSession
    /\ viper \in ViperSettings

Running == ~terminated /\ ~finished.done

Returned(e, fault, path, err, pre) ==
    [step |-> last.step + 1, kind |-> e.kind, name |-> e.name, mode |-> e.mode,
     content |-> e.content, fault |-> fault, phase |-> "return", path |-> path,
     err |-> err, pre |-> pre]

Start(w) == Running /\ pc[w] = "idle" /\ calls < MaxCalls

\* case tar.TypeReg, tar.TypeRegA, with useNewUnwrapImplementation false: the
\* old unwrap logic, called with fsync false
InterpretReg(w, e, fault, n) ==
    LET targetPath == Join(cfg.DBDataDirectory, e.name)
        r == unwrapRegularFileOld(fs, cfg, e, targetPath, InterpretFsync, fault, n)
    IN  /\ Start(w)
        /\ fault # "none" => r.err = (IF fault = "remove" THEN "fatal" ELSE fault)
        /\ fs' = r.fs
        /\ fsyncCalls' = fsyncCalls + r.fsyncs
        /\ terminated' = (r.err = "fatal")
        /\ last' = Returned(e, fault, r.path, r.err, fs[targetPath])
        /\ calls' = calls + 1
        /\ UNCHANGED <<cfg, viper, pc, cur, syncCalls, finished>>

\* case tar.TypeDir: os.MkdirAll(targetPath, 0755)
InterpretDirMkdirAll(w, e) ==
    LET targetPath == Join(cfg.DBDataDirectory, e.name)
        r == MkdirAll(fs, targetPath, DirCreatePerm)
    IN  /\ Start(w)
        /\ fs' = r.fs
        /\ calls' = calls + 1
        /\ IF r.err = "none"
           THEN /\ pc' = [pc EXCEPT ![w] = "chmod"]
                /\ cur' = [cur EXCEPT ![w] = e]
                /\ last' = [Returned(e, "none", "dir", "none", fs[targetPath])
                               EXCEPT !.phase = "mkdir"]
           ELSE /\ last' = Returned(e, "none", "dir", r.err, fs[targetPath])
                /\ UNCHANGED <<pc, cur>>
        /\ UNCHANGED <<cfg, viper, fsyncCalls, syncCalls, finished, terminated>>

\* case tar.TypeDir: os.Chmod(targetPath, os.FileMode(fileInfo.Mode))
InterpretDirChmod(w, fault) ==
    LET e == cur[w]
        targetPath == Join(cfg.DBDataDirectory, e.name)
        r == ChmodDir(fs, targetPath, e.mode, fault)
    IN  /\ Running
        /\ pc[w] = "chmod"
        /\ fs' = r.fs
        /\ pc' = [pc EXCEPT ![w] = "idle"]
        /\ cur' = [cur EXCEPT ![w] = NoEntry]
        /\ last' = Returned(e, fault, "dir", r.err, fs[targetPath])
        /\ UNCHANGED <<cfg, viper, calls, fsyncCalls, syncCalls, finished, terminated>>

\* case tar.TypeLink
InterpretLink(w, e) ==
    LET targetPath == Join(cfg.DBDataDirectory, e.name)
        r == Link(fs, e.name, targetPath)
    IN  /\ Start(w)
        /\ fs' = r.fs
        /\ calls' = calls + 1
        /\ last' = Returned(e, "none", "link", r.err, fs[targetPath])
        /\ UNCHANGED <<cfg, viper, pc, cur, fsyncCalls, syncCalls, finished, terminated>>

\* case tar.TypeSymlink
InterpretSymlink(w, e) ==
    LET targetPath == Join(cfg.DBDataDirectory, e.name)
        r == MakeSymlink(fs, e.name, targetPath)
    IN  /\ Start(w)
        /\ fs' = r.fs
        /\ calls' = calls + 1
        /\ last' = Returned(e, "none", "symlink", r.err, fs[targetPath])
        /\ UNCHANGED <<cfg, viper, pc, cur, fsyncCalls, syncCalls, finished, terminated>>

\* any other Typeflag: no case of the switch, return nil
InterpretOther(w, e) ==
    LET targetPath == Join(cfg.DBDataDirectory, e.name)
    IN  /\ Start(w)
        /\ calls' = calls + 1
        /\ last' = Returned(e, "none", "ignored", "none", fs[targetPath])
        /\ UNCHANGED <<fs, cfg, viper, pc, cur, fsyncCalls, syncCalls, finished, terminated>>

\* the stream of worker w has no more entries
StreamExhausted(w) ==
    /\ Running
    /\ pc[w] = "idle"
    /\ pc' = [pc EXCEPT ![w] = "exhausted"]
    /\ UNCHANGED <<fs, cfg, viper, cur, last, calls, fsyncCalls, syncCalls, finished, terminated>>

\* the finalize hook: once per restore, after every stream is exhausted
Finalize(errno) ==
    LET r == OnInterpretFinish(viper, errno)
    IN  /\ Running
        /\ \A w \in Workers : pc[w] = "exhausted"
        /\ r.syncs = 0 => errno = 0
        /\ syncCalls' = syncCalls + r.syncs
        /\ finished' = [done |-> TRUE, mode |-> r.mode, warnings |-> r.warnings,
                        err |-> r.err]
        /\ UNCHANGED <<fs, cfg, viper, pc, cur, last, calls, fsyncCalls, terminated>>

Next ==
    \/ \E w \in Workers, e \in RegEntries, fault \in Faults :
          \E n \in CopiedBytes(e, fault) : InterpretReg(w, e, fault, n)
    \/ \E w \in Workers, e \in DirEntries : InterpretDirMkdirAll(w, e)
    \/ \E w \in Workers, fault \in {"none", "chmod"} : InterpretDirChmod(w, fault)
    \/ \E w \in Workers, e \in LinkEntries : InterpretLink(w, e)
    \/ \E w \in Workers, e \in SymlinkEntries : InterpretSymlink(w, e)
    \/ \E w \in Workers, e \in OtherEntries : InterpretOther(w, e)
    \/ \E w \in Workers : StreamExhausted(w)
    \/ \E errno \in Errnos : Finalize(errno)

Spec == Init /\ [][Next]_vars

SpecDurability == InitDurability /\ [][Next]_vars

\* ----------------------------------------------------------------- claims

\* the target path of the step in last
LastTarget == Join(cfg.DBDataDirectory, last.name)
LastReturned == last.phase = "return"
LastIsRegular == last.kind = TypeReg /\ LastReturned

\* C1: a regular-file entry that takes the full-file path and for which
\* Interpret returns no error leaves, at DBDataDirectory/name, a file whose
\* content is the entry's content and whose mode is the entry's mode.
C1_FullFileWritten ==
    (LastIsRegular /\ last.path = "full" /\ last.err = "none")
        => /\ fs[LastTarget].kind = "file"
           /\ fs[LastTarget].content = last.content
           /\ fs[LastTarget].mode = last.mode

\* base/1/16384, mode 0644, content AA, root data, written over nothing
C1_Witness ==
    /\ LastIsRegular /\ last.path = "full" /\ last.err = "none"
    /\ last.name = Leaf /\ last.mode = 420 /\ cfg.DBDataDirectory = <<"data">>
    /\ fs[<<"data", "base", "1", "16384">>] = File(420, <<"A", "A">>)
    /\ last.pre = None

\* C2 as stated: no Interpret step for an entry of any kind whose name the
\* restore selection excludes creates or modifies the target path.
C2_Original ==
    (last.step > 0 /\ cfg.FilesToUnwrap.configured
        /\ last.name \notin cfg.FilesToUnwrap.names)
        => fs[LastTarget] = last.pre

\* C2 amended: an Interpret call for a regular-file entry whose name the
\* restore selection excludes returns nil and changes nothing in the file
\* system.
C2_ExcludedRegularUntouched ==
    [][(/\ last'.step # last.step
        /\ last'.kind = TypeReg
        /\ cfg.FilesToUnwrap.configured
        /\ last'.name \notin cfg.FilesToUnwrap.names)
         => (fs' = fs /\ last'.err = "none" /\ last'.path = "skip")]_vars

\* an excluded regular file was interpreted while its parent directory exists
C2_Witness ==
    /\ LastIsRegular /\ last.path = "skip"
    /\ cfg.FilesToUnwrap.configured /\ last.name \notin cfg.FilesToUnwrap.names
    /\ IsDir(fs, Front(LastTarget)) /\ Front(LastTarget) # <<>>
    /\ fs[LastTarget] = None

\* C3: a copy that fails either returns the copy error with the target path
\* absent, or (the removal failed too) ends the process without returning.
C3_CopyFailureCleansUp ==
    /\ (LastIsRegular /\ last.fault = "copy")
          => (last.err = "copy" /\ ~terminated /\ fs[LastTarget] = None)
    /\ (LastIsRegular /\ last.fault = "remove") => (last.err = "fatal" /\ terminated)
    /\ terminated => last.err = "fatal"
    /\ (LastIsRegular /\ last.err = "copy") => fs[LastTarget] = None

\* the copy over a file that was there before failed, and the file is gone
C3_Witness ==
    /\ LastIsRegular /\ last.err = "copy" /\ ~terminated
    /\ last.pre.kind = "file" /\ fs[LastTarget] = None

\* C4: the resolved mode and the warnings, for every pair of settings.
C4_FileSyncModeResolution ==
    LET legacySet == viper.TarDisableFsync # Unset
        fallback  == /\ viper.TarFsyncMode \in {Unset, DEFAULT}
                     /\ viper.TarDisableFsync = "true"
        warned(m) == \E i \in 1..Len(finished.warnings) : finished.warnings[i] = m
    IN  finished.done =>
          /\ warned(deprecatedFileSyncMessage) <=> legacySet
          /\ warned(fallingBackFileSyncMessage) <=> fallback
          /\ Len(finished.warnings) = (IF fallback THEN 2 ELSE IF legacySet THEN 1 ELSE 0)
          /\ fallback => finished.mode = DISABLED
          /\ ~fallback => finished.mode =
                 (IF viper.TarFsyncMode = Unset THEN DEFAULT ELSE viper.TarFsyncMode)

\* GLOBAL with the legacy boolean true: GLOBAL, the deprecation warning only
C4_Witness ==
    /\ finished.done
    /\ viper.TarFsyncMode = GLOBAL /\ viper.TarDisableFsync = "true"
    /\ finished.mode = GLOBAL
    /\ finished.warnings = <<deprecatedFileSyncMessage>>

ResolvesToDisabled ==
    \/ viper.TarFsyncMode = DISABLED
    \/ viper.TarFsyncMode \in {Unset, DEFAULT} /\ viper.TarDisableFsync = "true"

\* C6: under DISABLED no localFile.Sync() and no SYS_SYNC is ever made, and
\* OnInterpretFinish returns no error.
C6_DisabledNeverSyncs ==
    ResolvesToDisabled =>
        /\ fsyncCalls = 0
        /\ syncCalls = 0
        /\ finished.done => finished.err = "none"

\* a file was written and the hook ran, under DISABLED by fallback
C6_Witness ==
    /\ ResolvesToDisabled /\ viper.TarFsyncMode = Unset
    /\ finished.done /\ finished.mode = DISABLED
    /\ last.kind = TypeReg /\ last.err = "none" /\ last.path = "full"

\* C7 as stated: under DEFAULT a regular file Interpret wrote successfully
\* has been fsynced when Interpret returns.
C7_PerFileFsync ==
    (/\ viper.TarFsyncMode \in {Unset, DEFAULT} /\ viper.TarDisableFsync # "true"
     /\ LastIsRegular /\ last.path = "full" /\ last.err = "none")
        => fsyncCalls >= 1

\* C8: a directory step on a directory that exists returns no error and
\* changes nothing but the mode the entry asks for; a directory entry that
\* returned leaves the directory with its mode and every ancestor a directory.
C8_DirectoryIdempotent ==
    [][(last'.step # last.step /\ last'.kind = TypeDir /\ last'.fault = "none")
         => LET t == Join(cfg.DBDataDirectory, last'.name)
            IN  /\ fs[t].kind = "dir" =>
                     /\ last'.err = "none"
                     /\ \A p \in Paths \ {t} : fs'[p] = fs[p]
                     /\ fs'[t] = Dir(IF last'.phase = "return" THEN last'.mode
                                     ELSE fs[t].mode)
                /\ (last'.phase = "return" /\ last'.err = "none") =>
                     /\ fs'[t] = Dir(last'.mode)
                     /\ \A q \in Prefixes(t) : fs'[q].kind = "dir"]_vars

\* the same directory entry returned a second time, the other worker's call
\* having left the directory with the entry's mode already
C8_Witness ==
    /\ last.kind = TypeDir /\ LastReturned /\ last.err = "none"
    /\ last.mode = 448 /\ last.pre = Dir(448)
    /\ fs[LastTarget] = Dir(448)
    /\ calls = 2 /\ last.step = 4

\* C9 as stated: after a chmod failure the file is no longer at the target.
C9_Original ==
    (LastIsRegular /\ last.err = "chmod") => fs[LastTarget] = None

\* C9 amended: a chmod failure is returned with the file left at the target
\* path, fully copied, with the mode it had before the chmod (the creation
\* mode, or the mode of the file it replaced); only a copy failure removes it.
C9_ChmodFailureKeepsFile ==
    /\ (LastIsRegular /\ last.fault = "chmod")
          => /\ last.err = "chmod"
             /\ fs[LastTarget] =
                  File(IF last.pre.kind = "file" THEN last.pre.mode ELSE FileCreatePerm,
                       last.content)
    /\ (LastIsRegular /\ last.err = "chmod") => last.fault = "chmod"

\* chmod failed on a file the call created
C9_Witness ==
    /\ LastIsRegular /\ last.err = "chmod" /\ last.pre = None
    /\ fs[LastTarget] = File(FileCreatePerm, last.content)

\* C10: an accepted regular file takes the increment path exactly when the
\* metadata marks it incremented and the sentinel is incremental; the full
\* path leaves the parent directory and the file in place; the increment
\* path over an existing file does not truncate it and does not create it.
C10_IncrementDecision ==
    (LastIsRegular /\ last.path # "skip") =>
        /\ last.path \in {"increment", "full"}
        /\ last.path = "increment" <=>
              /\ last.name \in DOMAIN cfg.FilesMetadata
              /\ cfg.FilesMetadata[last.name].IsIncremented
              /\ cfg.Sentinel.IsIncremental
        /\ (last.path = "full" /\ last.err = "none") =>
              /\ IsDir(fs, Front(LastTarget))
              /\ fs[LastTarget].kind = "file"
        /\ (last.path = "increment" /\ ~cfg.createNewIncrementalFiles) =>
              /\ fs[LastTarget].kind = last.pre.kind
              /\ Len(fs[LastTarget].content) = Len(last.pre.content)

\* an increment was applied in place over the base file
C10_Witness ==
    /\ LastIsRegular /\ last.path = "increment" /\ last.err = "none"
    /\ ~cfg.createNewIncrementalFiles
    /\ last.content = <<"B">> /\ last.pre.content = <<"A", "A">>
    /\ fs[LastTarget].content = <<"B", "A">>

====
